---- MODULE Spec2Model ----
(***************************************************************************)
(* Model of the Financial-AI-DashBoard frontend (FinancialIntelSuite).     *)
(*                                                                         *)
(*   Spec       the App orchestrator (App.js) with its two sidebar         *)
(*              components Filters (Filters.js) and UploadForm             *)
(*              (UploadForm.js), the HTTP requests they start, and the     *)
(*              dataset held with the year selector of TopShareholders.    *)
(*   SpecRank   the shareholder ranking of TopShareholders.js.             *)
(*   SpecChart  the tooltip callbacks of the chart components.             *)
(*                                                                         *)
(* JavaScript is single threaded: an event handler, or the continuation of *)
(* an async function after its await, runs to completion, so each is one   *)
(* action.  The only asynchrony is the HTTP request between the two.       *)
(***************************************************************************)
EXTENDS Integers, Sequences, FiniteSets, TLC

\* ---------------------------------------------------------------- bounds
\* Requests (uploads and filter fetches together) issued in one run.
MaxRequests == 2
\* How many of the year options (counted from the last one) the user toggles
\* one by one; the full selection is always available too.
MaxSelectable == 1
\* How many of the industry options the user picks from.
MaxIndustries == 2
\* Files in one selection of the file dialog.
MaxFiles == 2

\* ------------------------------------------------------------ App state
VARIABLES
    data,        \* App: useState(null); the response held, named by its request
    dataYears,   \* data.years of the response held
    shareholders, \* data.shareholders of the response held, one list per year
    selectedYear, \* TopShareholders: useState(data.years[data.years.length - 1])
    isLoading,   \* App: useState(false)
    error,       \* App: useState(null)
    filters,     \* App: useState({years: [], industry: 'All', currency: 'LKR'})
    requests,    \* every request issued so far, in order of issue
    sent,        \* params of the latest axios.get('/api/filter', {params})
    years,       \* Filters: useState(filters.years || [])
    industry,    \* Filters: useState(filters.industry || 'All')
    currency,    \* Filters: useState(filters.currency || 'LKR')
    files,       \* UploadForm: useState([])
    message,     \* UploadForm: useState('')
    uploaded     \* the files of the latest onUpload(files)

appVars == <<data, dataYears, shareholders, selectedYear,
             isLoading, error, filters, requests, sent,
             years, industry, currency, files, message, uploaded>>

\* ------------------------------------------------- TopShareholders state
VARIABLES
    yearData,            \* data.shareholders[yearIndex], the selected year's entries
    top10Shareholders,   \* what the render hands to the bar chart
    rendered             \* whether TopShareholders has rendered yearData

rankVars == <<yearData, top10Shareholders, rendered>>

\* ------------------------------------------------------ chart state
VARIABLES
    dataset,        \* the data prop of the chart components (the fields they read)
    benchmarkLine,  \* NetAssetShare: chartData.datasets[1].data, once rendered
    hovered,        \* the point the tooltip is shown for
    tooltip         \* the lines the tooltip callback returned for it

chartVars == <<dataset, benchmarkLine, hovered, tooltip>>

otherThanApp == <<rankVars, chartVars>>
otherThanRank == <<appVars, chartVars>>
otherThanChart == <<appVars, rankVars>>

\* null, for data: responses are named 1, 2, ... after their requests.
NoData == 0
\* null, for error.
NoError == "null"
UploadError == "Failed to upload files. Please try again."
FilterError == "Failed to filter data. Please try again."
\* No call of onUpload yet.
NoUpload == <<"no call">>
\* No call of axios.get yet.
NoCall == [years |-> <<0>>, industry |-> "", currency |-> ""]

availableYears == <<2019, 2020, 2021, 2022, 2023, 2024>>
industries == <<"All", "Transportation", "Leisure", "Consumer Foods", "Retail",
                "Financial Services">>
currencies == <<"LKR", "USD">>

Min(a, b) == IF a < b THEN a ELSE b

RECURSIVE SelectedFrom(_, _, _)
\* The options of `opts` from position i on whose position is in S, in option order:
\* e.target.selectedOptions mapped through parseInt(option.value).
SelectedFrom(opts, S, i) ==
    IF i > Len(opts) THEN <<>>
    ELSE IF i \in S THEN <<opts[i]>> \o SelectedFrom(opts, S, i + 1)
    ELSE SelectedFrom(opts, S, i + 1)

\* The selections of the multiple <select> the model lets the user make.
YearSelections ==
    { SelectedFrom(availableYears, S, 1) :
        S \in SUBSET ((Len(availableYears) - Min(MaxSelectable, Len(availableYears)) + 1)
                        .. Len(availableYears)) }
    \cup {availableYears}

IndustryChoices == { industries[i] : i \in 1..Min(MaxIndustries, Len(industries)) }
CurrencyChoices == { currencies[i] : i \in 1..Len(currencies) }

PdfType == "application/pdf"
FileTypes == {PdfType, "text/plain"}
\* What the file dialog can hand to handleFileChange: each file by its type.
FileSelections == UNION { [1..n -> FileTypes] : n \in 0..MaxFiles }

\* selectedFiles.filter(file => file.type === 'application/pdf')
pdfFiles(selectedFiles) == SelectSeq(selectedFiles, LAMBDA f : f = PdfType)

Pending == { i \in 1..Len(requests) : requests[i].status = "pending" }

\* What App renders in main-content.
View ==
    IF isLoading THEN "loading"
    ELSE IF data = NoData THEN "upload-prompt"
    ELSE "dashboard"

\* TopShareholders is part of the dashboard: in the other views it is not
\* mounted and has no selected year.
NotMounted == 0

\* ---------------------------------------------------------------- Init
\* After mount: the Filters effect has replaced its empty years by all years;
\* App's own filters state still holds years: [].
FiltersMountYears(initial) == IF Len(initial) = 0 THEN availableYears ELSE initial

AppInit ==
    /\ data = NoData
    /\ dataYears = <<>>
    /\ shareholders = <<>>
    /\ selectedYear = NotMounted
    /\ isLoading = FALSE
    /\ error = NoError
    /\ filters = [years |-> <<>>, industry |-> "All", currency |-> "LKR"]
    /\ requests = <<>>
    /\ sent = NoCall
    /\ years = FiltersMountYears(filters.years)
    /\ industry = filters.industry
    /\ currency = filters.currency
    /\ files = <<>>
    /\ message = <<"", 0>>
    /\ uploaded = NoUpload

\* -------------------------------------------------- TopShareholders.js
\* Most entries a year's shareholder table holds in the model.
MaxHolders == 11
\* The ownership percentages the entries are given: two values, so that a
\* table holds both entries out of order and entries that tie.
Percentages == {5, 10}
\* sortedShareholders.slice(0, 10)
TopN == 10

\* A year's table as the backend sends it: entry i is named i, so that equal
\* percentages stay distinguishable.
ShareholderList(n, pct) ==
    [i \in 1..n |-> [name |-> i, ownership_percentage |-> pct[i]]]

\* The comparator (a, b) => b.ownership_percentage - a.ownership_percentage
compare(a, b) == b.ownership_percentage - a.ownership_percentage

RECURSIVE InsertSorted(_, _)
\* x goes before the first entry the comparator orders after it, and so after
\* every entry that compares equal: Array.prototype.sort is stable.
InsertSorted(sorted, x) ==
    IF sorted = <<>> THEN <<x>>
    ELSE IF compare(Head(sorted), x) > 0
         THEN <<x>> \o sorted
         ELSE <<Head(sorted)>> \o InsertSorted(Tail(sorted), x)

RECURSIVE SortFrom(_, _, _)
SortFrom(list, sorted, i) ==
    IF i > Len(list) THEN sorted
    ELSE SortFrom(list, InsertSorted(sorted, list[i]), i + 1)

\* A sort that puts later equal entries first (an unstable sort).
SortReversingTies(list) ==
    LET RECURSIVE Ins(_, _)
        Ins(sorted, x) ==
            IF sorted = <<>> THEN <<x>>
            ELSE IF compare(Head(sorted), x) >= 0
                 THEN <<x>> \o sorted
                 ELSE <<Head(sorted)>> \o Ins(Tail(sorted), x)
        RECURSIVE From(_, _)
        From(sorted, i) ==
            IF i > Len(list) THEN sorted ELSE From(Ins(sorted, list[i]), i + 1)
    IN  From(<<>>, 1)

\* [...yearData].sort(compare): a sorted copy.
sortedShareholders(list) == SortFrom(list, <<>>, 1)

\* slice(0, n) that drops one entry too many.
SliceShort(list, n) == SubSeq(list, 1, Min(n - 1, Len(list)))

\* Array.prototype.slice(0, n)
Slice0(list, n) == SubSeq(list, 1, Min(n, Len(list)))

\* The ranking of one render.
Top10(list) == Slice0(sortedShareholders(list), TopN)

\* Line 12, [...yearData].sort(compare): the entries of the dataset and the
\* sorted copy made of them.
SortedInPlace(list) ==
    [yearData |-> sortedShareholders(list),
     sortedShareholders |-> sortedShareholders(list)]

SpreadSort(list) ==
    [yearData |-> list, sortedShareholders |-> sortedShareholders(list)]

\* Array.prototype.indexOf, positions counted from 1; 0 for the code's -1.
indexOf(seq, x) ==
    IF \E k \in 1..Len(seq) : seq[k] = x
    THEN CHOOSE k \in 1..Len(seq) : seq[k] = x /\ \A j \in 1..(k - 1) : seq[j] # x
    ELSE 0

\* The value of a year's <option>: the year as decimal text, digit by digit.
RECURSIVE OptionValue(_)
OptionValue(year) ==
    IF year < 10 THEN <<year>> ELSE Append(OptionValue(year \div 10), year % 10)

\* parseInt of decimal text.
RECURSIVE parseInt(_)
parseInt(text) ==
    IF Len(text) = 1 THEN text[1]
    ELSE 10 * parseInt(SubSeq(text, 1, Len(text) - 1)) + text[Len(text)]

\* data.shareholders after one render of TopShareholders (lines 8-15) with
\* the given year selected: the render reads the year's entries and sorts.
TopShareholdersRender(sh, ys, sel) ==
    LET yearIndex == indexOf(ys, sel)
    IN  IF yearIndex # 0 /\ yearIndex <= Len(sh)
        THEN [sh EXCEPT ![yearIndex] = SpreadSort(sh[yearIndex]).yearData]
        ELSE sh

\* ------------------------------------------------------------ responses
\* The years a response can carry (the backend is not part of the sources).
ResponseYears == {<<2023>>, <<2023, 2024>>}

\* The shareholder entries a response carries for a year: not in ranking
\* order, and with a tie.
HoldersOf(year) ==
    IF year = 2023 THEN ShareholderList(3, <<5, 10, 10>>)
    ELSE ShareholderList(2, <<5, 10>>)

ResponseShareholders(ys) == [k \in 1..Len(ys) |-> HoldersOf(ys[k])]

\* The render that follows a change of App's state, given the
\* data.shareholders to render.  TopShareholders keeps its selected year while
\* it stays mounted and takes the last year of data.years when it mounts.
Render(sh) ==
    /\ selectedYear' =
           IF View' # "dashboard" THEN NotMounted
           ELSE IF View = "dashboard" THEN selectedYear
           ELSE dataYears'[Len(dataYears')]
    /\ shareholders' =
           IF View' = "dashboard"
           THEN TopShareholdersRender(sh, dataYears', selectedYear')
           ELSE sh

\* ------------------------------------------------------------- App.js
\* handleFileUpload up to its await: the request is on its way.
handleFileUpload(fs) ==
    /\ Len(requests) < MaxRequests
    /\ isLoading' = TRUE
    /\ error' = NoError
    /\ requests' = Append(requests, [kind |-> "upload", status |-> "pending"])
    /\ uploaded' = fs
    /\ UNCHANGED <<data, dataYears, filters, sent>>
    /\ Render(shareholders)

\* fetchFilteredData up to its await.
fetchFilteredData(f) ==
    /\ Len(requests) < MaxRequests
    /\ isLoading' = TRUE
    /\ requests' = Append(requests, [kind |-> "filter", status |-> "pending"])
    /\ sent' = f
    /\ UNCHANGED <<data, dataYears, error, uploaded>>
    /\ Render(shareholders)

handleFilterChange(newFilters) ==
    /\ filters' = newFilters
    /\ fetchFilteredData(newFilters)

\* The continuation of handleFileUpload when axios.post resolves.
UploadResolved(i) ==
    /\ data' = i
    /\ isLoading' = FALSE
    /\ UNCHANGED error
    /\ \E ys \in ResponseYears :
           /\ dataYears' = ys
           /\ Render(ResponseShareholders(ys))

\* A catch block that also drops the dataset held.
UploadRejectedClearingData(i) ==
    /\ error' = UploadError
    /\ isLoading' = FALSE
    /\ data' = NoData
    /\ dataYears' = <<>>
    /\ Render(<<>>)

\* ... and when it rejects.
UploadRejected(i) ==
    /\ error' = UploadError
    /\ isLoading' = FALSE
    /\ UNCHANGED <<data, dataYears>>
    /\ Render(shareholders)

\* The continuation of fetchFilteredData when axios.get resolves.
FilterResolved(i) ==
    /\ data' = i
    /\ isLoading' = FALSE
    /\ UNCHANGED error
    /\ \E ys \in ResponseYears :
           /\ dataYears' = ys
           /\ Render(ResponseShareholders(ys))

\* ... and when it rejects.
FilterRejected(i) ==
    /\ error' = FilterError
    /\ isLoading' = FALSE
    /\ UNCHANGED <<data, dataYears>>
    /\ Render(shareholders)

\* ---------------------------------------------------------- Filters.js
YearChange ==
    \E selectedYears \in YearSelections :
        /\ years' = selectedYears
        /\ handleFilterChange([filters EXCEPT !.years = selectedYears])
        /\ UNCHANGED <<industry, currency, files, message, otherThanApp>>

IndustryChange ==
    \E v \in IndustryChoices :
        /\ industry' = v
        /\ handleFilterChange([filters EXCEPT !.industry = v])
        /\ UNCHANGED <<years, currency, files, message, otherThanApp>>

CurrencyChange ==
    \E v \in CurrencyChoices :
        /\ currency' = v
        /\ handleFilterChange([filters EXCEPT !.currency = v])
        /\ UNCHANGED <<years, industry, files, message, otherThanApp>>

ApplyFilters ==
    /\ handleFilterChange([years |-> years, industry |-> industry, currency |-> currency])
    /\ UNCHANGED <<years, industry, currency, files, message, otherThanApp>>

\* ------------------------------------------------------- UploadForm.js
OnlyPdfMessage == <<"Please select only PDF files.", 0>>
NoFileMessage == <<"Please select at least one PDF file.", 0>>

\* A handleSubmit without its test for an empty list.
SubmitUnguarded ==
    /\ ~isLoading
    /\ handleFileUpload(files)
    /\ UNCHANGED <<message, years, industry, currency, files, otherThanApp>>

\* The file input is disabled while isLoading.
FileChange ==
    \E selectedFiles \in FileSelections :
        /\ ~isLoading
        /\ IF Len(pdfFiles(selectedFiles)) # Len(selectedFiles)
           THEN /\ message' = OnlyPdfMessage
                /\ UNCHANGED files
           ELSE /\ files' = pdfFiles(selectedFiles)
                /\ message' = <<"file(s) selected.", Len(pdfFiles(selectedFiles))>>
        /\ UNCHANGED <<data, dataYears, shareholders, selectedYear,
                       isLoading, error, filters, requests, sent, uploaded,
                       years, industry, currency, otherThanApp>>

\* handleSubmit.  The submit button is disabled while isLoading; it is disabled
\* with no accepted file as well, and the handler tests the empty list itself,
\* for a submit event that does not come from the button.
Submit ==
    /\ ~isLoading
    /\ IF Len(files) = 0
       THEN /\ message' = NoFileMessage
            /\ UNCHANGED <<data, dataYears, shareholders, selectedYear,
                           isLoading, error, filters, requests, sent, uploaded>>
       ELSE /\ handleFileUpload(files)
            /\ UNCHANGED message
    /\ UNCHANGED <<years, industry, currency, files, otherThanApp>>

\* ------------------------------------------- TopShareholders.js, selector
\* handleYearChange of the year selector, whose options are the years of data,
\* and the render of TopShareholders that follows.
SelectYear ==
    /\ View = "dashboard"
    /\ \E k \in 1..Len(dataYears) :
           selectedYear' = parseInt(OptionValue(dataYears[k]))
    /\ shareholders' = TopShareholdersRender(shareholders, dataYears, selectedYear')
    /\ UNCHANGED <<data, dataYears, isLoading, error, filters, requests, sent,
                   years, industry, currency, files, message, uploaded,
                   otherThanApp>>

\* ------------------------------------------------------------- network
\* A pending request completes, in any order: the backend answers or fails.
Resolve ==
    \E i \in Pending :
        /\ requests' = [requests EXCEPT ![i].status = "ok"]
        /\ IF requests[i].kind = "upload" THEN UploadResolved(i) ELSE FilterResolved(i)
        /\ UNCHANGED <<filters, sent, years, industry, currency, files, message,
                       uploaded, otherThanApp>>

Reject ==
    \E i \in Pending :
        /\ requests' = [requests EXCEPT ![i].status = "fail"]
        /\ IF requests[i].kind = "upload" THEN UploadRejected(i) ELSE FilterRejected(i)
        /\ UNCHANGED <<filters, sent, years, industry, currency, files, message,
                       uploaded, otherThanApp>>

RankIdle ==
    /\ yearData = <<>>
    /\ top10Shareholders = <<>>
    /\ rendered = FALSE

RankInit ==
    /\ \E n \in 0..MaxHolders :
           \E pct \in [1..n -> Percentages] : yearData = ShareholderList(n, pct)
    /\ top10Shareholders = <<>>
    /\ rendered = FALSE

\* One render of TopShareholders with the selected year's entries.
RenderTopShareholders ==
    /\ ~rendered
    /\ top10Shareholders' = Top10(yearData)
    /\ yearData' = SpreadSort(yearData).yearData
    /\ rendered' = TRUE
    /\ UNCHANGED otherThanRank

\* ------------------------------------------------ the chart components
\* Years in view.
MaxYears == 3
\* Per-year figures are drawn from 0..MaxValue, growth figures from -1..MaxValue.
MaxValue == 2
\* data.industry_benchmark || 85
DefaultBenchmark == 85

\* A JavaScript number is a fraction n/d (d > 0), Infinity, -Infinity or NaN;
\* null and undefined are Absent.
Num(v) == [t |-> "num", n |-> v, d |-> 1]
Infinity == [t |-> "Infinity", n |-> 0, d |-> 1]
NegInfinity == [t |-> "-Infinity", n |-> 0, d |-> 1]
NaN == [t |-> "NaN", n |-> 0, d |-> 1]
Absent == [t |-> "absent", n |-> 0, d |-> 1]

\* An array field of the payload, or its absence.
Present(seq) == [present |-> TRUE, items |-> seq]
Missing == [present |-> FALSE, items |-> <<>>]

\* arr[k] with k counted from 0: undefined outside the array.
At(arr, k) == IF k + 1 \in 1..Len(arr.items) THEN arr.items[k + 1] ELSE Absent

\* JavaScript truthiness of a number, null or undefined.
Truthy(x) ==
    \/ x.t = "num" /\ x.n # 0
    \/ x.t \in {"Infinity", "-Infinity"}

\* x > 0
IsPositive(x) == (x.t = "num" /\ x.n > 0) \/ x.t = "Infinity"

\* a - b, for numbers
Minus(a, b) == [t |-> "num", n |-> a.n * b.d - b.n * a.d, d |-> a.d * b.d]

\* a / b, for numbers: IEEE 754 division, so x/0 is an infinity and 0/0 is NaN.
Divide(a, b) ==
    IF b.n = 0
    THEN IF a.n > 0 THEN Infinity ELSE IF a.n < 0 THEN NegInfinity ELSE NaN
    ELSE IF b.n > 0 THEN [t |-> "num", n |-> a.n * b.d, d |-> a.d * b.n]
    ELSE [t |-> "num", n |-> -(a.n * b.d), d |-> a.d * (-b.n)]

\* x * k, for a number x and a positive integer k
Times(x, k) == IF x.t = "num" THEN [x EXCEPT !.n = x.n * k] ELSE x

Abs(v) == IF v < 0 THEN -v ELSE v

RECURSIVE Pow10(_)
Pow10(k) == IF k = 0 THEN 1 ELSE 10 * Pow10(k - 1)

\* x.toFixed(digits): the decimal with `digits` places nearest to x, a tie going
\* away from zero, held here as the integer v = decimal * 10^digits; Infinity
\* and NaN print as their names.
toFixed(x, digits) ==
    IF x.t # "num" THEN [t |-> x.t, v |-> 0]
    ELSE LET scaled == Abs(x.n) * Pow10(digits)
             q == (2 * scaled + x.d) \div (2 * x.d)
         IN  [t |-> "num", v |-> IF x.n < 0 THEN -q ELSE q]

\* One line of tooltip text: its label, whether a '+' is put before the figure,
\* and the figure as toFixed printed it.
Line(label, plus, shown) == [label |-> label, plus |-> plus, shown |-> shown]

\* The fields of a payload for n years in which every optional field is absent.
Blank(n) ==
    [n |-> n,
     revenue_growth |-> Missing,
     eps_growth |-> Missing,
     net_profit |-> Missing,
     cost_ratio |-> Missing,
     net_asset_per_share |-> Missing,
     gross_profit_margin |-> Missing,
     industry_benchmark |-> Absent]

\* A JSON number of S or null.
Optional(S) == { Num(v) : v \in S } \cup {Absent}
Figures == { Num(v) : v \in 0..MaxValue }
\* An array of len elements of S, or no array at all.
Field(S, len) == { Present(a) : a \in [1..len -> S] } \cup {Missing}

\* An array of len elements that are all the same element of S, or no array.
Uniform(S, len) == { Present([i \in 1..len |-> x]) : x \in S } \cup {Missing}

\* The payloads for n years the charts are given: the fields one chart reads
\* vary, the fields of the other charts are absent.  EPSTrend reads two fields:
\* its growth figures vary against a net profit that is the same every year,
\* and its net profits vary on their own.
Datasets(n) ==
    { [Blank(n) EXCEPT !.revenue_growth = g] :
        g \in Field(Optional(-1..MaxValue), n - 1) }
    \cup { [Blank(n) EXCEPT !.eps_growth = g, !.net_profit = p] :
        g \in Field(Optional(-1..MaxValue), n - 1),
        p \in Uniform(Optional(0..MaxValue), n) }
    \cup { [Blank(n) EXCEPT !.net_profit = p] :
        p \in Field(Optional(0..MaxValue), n) }
    \cup { [Blank(n) EXCEPT !.net_asset_per_share = v, !.industry_benchmark = b] :
        v \in Field(Figures, n), b \in Optional(0..MaxValue) }
    \cup { [Blank(n) EXCEPT !.gross_profit_margin = v] : v \in Field(Figures, n) }
    \cup { [Blank(n) EXCEPT !.cost_ratio = r] :
        r \in Field(Optional(0..MaxValue), n) }

NoPoint == [chart |-> "", datasetIndex |-> 0, dataIndex |-> 0]
Point(chart, datasetIndex, dataIndex) ==
    [chart |-> chart, datasetIndex |-> datasetIndex, dataIndex |-> dataIndex]

\* "YoY Growth: +x.x%", the line RevenueTrend and EPSTrend share.
GrowthLine(growth) == Line("YoY Growth", IsPositive(growth), toFixed(growth, 1))

\* RevenueTrend: tooltip.callbacks.afterLabel; null is no line.
RevenueAfterLabel(index) ==
    IF index > 0 /\ dataset.revenue_growth.present
                 /\ Truthy(At(dataset.revenue_growth, index - 1))
    THEN <<GrowthLine(At(dataset.revenue_growth, index - 1))>>
    ELSE <<>>

\* EPSTrend: tooltip.callbacks.afterLabel
EPSAfterLabel(index) ==
    LET profit == IF dataset.net_profit.present /\ Truthy(At(dataset.net_profit, index))
                  THEN <<Line("Net Profit", FALSE, toFixed(At(dataset.net_profit, index), 2))>>
                  ELSE <<>>
        growth == IF index > 0 /\ dataset.eps_growth.present
                               /\ Truthy(At(dataset.eps_growth, index - 1))
                  THEN <<GrowthLine(At(dataset.eps_growth, index - 1))>>
                  ELSE <<>>
    IN  profit \o growth

\* The percentage taken of the current year's value instead of the previous one.
PercentChangeOfCurrent(currentValue, previousValue) ==
    Times(Divide(Minus(currentValue, previousValue), currentValue), 100)

\* NetAssetShare: (change / previousValue) * 100
PercentChange(currentValue, previousValue) ==
    Times(Divide(Minus(currentValue, previousValue), previousValue), 100)

\* NetAssetShare: tooltip.callbacks.afterLabel
NetAssetAfterLabel(datasetIndex, index) ==
    IF datasetIndex = 0 /\ index > 0 /\ dataset.net_asset_per_share.present
    THEN LET currentValue == At(dataset.net_asset_per_share, index)
             previousValue == At(dataset.net_asset_per_share, index - 1)
             change == Minus(currentValue, previousValue)
             percentChange == PercentChange(currentValue, previousValue)
         IN  <<Line("YoY Change", IsPositive(change), toFixed(change, 2)),
               Line("YoY Growth", FALSE, toFixed(percentChange, 1))>>
    ELSE <<>>

\* GPMargin: tooltip.callbacks.afterLabel
GPMarginAfterLabel(datasetIndex, index) ==
    IF datasetIndex = 0 /\ index > 0 /\ dataset.gross_profit_margin.present
    THEN LET currentValue == At(dataset.gross_profit_margin, index)
             previousValue == At(dataset.gross_profit_margin, index - 1)
             change == Minus(currentValue, previousValue)
         IN  <<Line("YoY Change", IsPositive(change), toFixed(change, 2))>>
    ELSE <<>>

\* CostExpenses: tooltip.callbacks.afterBody
CostAfterBody(index) ==
    IF dataset.cost_ratio.present /\ Truthy(At(dataset.cost_ratio, index))
    THEN <<Line("Cost-to-Revenue Ratio", FALSE, toFixed(At(dataset.cost_ratio, index), 1))>>
    ELSE <<>>

\* Array(data.years.length).fill(data.industry_benchmark || 85)
BenchmarkData ==
    [i \in 1..dataset.n |->
        IF Truthy(dataset.industry_benchmark)
        THEN dataset.industry_benchmark ELSE Num(DefaultBenchmark)]

ChartIdle ==
    /\ dataset = Blank(1)
    /\ benchmarkLine = <<>>
    /\ hovered = NoPoint
    /\ tooltip = <<>>

ChartInit ==
    /\ \E n \in 1..MaxYears : dataset \in Datasets(n)
    /\ benchmarkLine = <<>>
    /\ hovered = NoPoint
    /\ tooltip = <<>>

\* The first render of the charts: the data of the chart lines is laid out.
RenderCharts ==
    /\ benchmarkLine = <<>>
    /\ benchmarkLine' = BenchmarkData
    /\ UNCHANGED <<dataset, hovered, tooltip, otherThanChart>>

HoverRevenueTrend ==
    \E index \in 0..(dataset.n - 1) :
        /\ benchmarkLine # <<>>
        /\ hovered' = Point("RevenueTrend", 0, index)
        /\ tooltip' = RevenueAfterLabel(index)
        /\ UNCHANGED <<dataset, benchmarkLine, otherThanChart>>

HoverEPSTrend ==
    \E index \in 0..(dataset.n - 1) :
        /\ benchmarkLine # <<>>
        /\ hovered' = Point("EPSTrend", 0, index)
        /\ tooltip' = EPSAfterLabel(index)
        /\ UNCHANGED <<dataset, benchmarkLine, otherThanChart>>

\* Dataset 0 is the company's line, which has points only when the series was
\* sent; dataset 1 is the benchmark line.
HoverNetAssetShare ==
    \E datasetIndex \in 0..1, index \in 0..(dataset.n - 1) :
        /\ benchmarkLine # <<>>
        /\ datasetIndex = 0 => dataset.net_asset_per_share.present
        /\ hovered' = Point("NetAssetShare", datasetIndex, index)
        /\ tooltip' = NetAssetAfterLabel(datasetIndex, index)
        /\ UNCHANGED <<dataset, benchmarkLine, otherThanChart>>

HoverGPMargin ==
    \E datasetIndex \in 0..1, index \in 0..(dataset.n - 1) :
        /\ benchmarkLine # <<>>
        /\ datasetIndex = 0 => dataset.gross_profit_margin.present
        /\ hovered' = Point("GPMargin", datasetIndex, index)
        /\ tooltip' = GPMarginAfterLabel(datasetIndex, index)
        /\ UNCHANGED <<dataset, benchmarkLine, otherThanChart>>

HoverCostExpenses ==
    \E index \in 0..(dataset.n - 1) :
        /\ benchmarkLine # <<>>
        /\ hovered' = Point("CostExpenses", 0, index)
        /\ tooltip' = CostAfterBody(index)
        /\ UNCHANGED <<dataset, benchmarkLine, otherThanChart>>

vars == <<appVars, rankVars, chartVars>>

Init == AppInit /\ RankIdle /\ ChartIdle

Next ==
    \/ YearChange
    \/ IndustryChange
    \/ CurrencyChange
    \/ ApplyFilters
    \/ FileChange
    \/ Submit
    \/ SelectYear
    \/ Resolve
    \/ Reject

Spec == Init /\ [][Next]_vars

InitRank == AppInit /\ RankInit /\ ChartIdle

NextRank == RenderTopShareholders

SpecRank == InitRank /\ [][NextRank]_vars

InitChart == AppInit /\ RankIdle /\ ChartInit

NextChart ==
    \/ RenderCharts
    \/ HoverRevenueTrend
    \/ HoverEPSTrend
    \/ HoverNetAssetShare
    \/ HoverGPMargin
    \/ HoverCostExpenses

SpecChart == InitChart /\ [][NextChart]_vars

\* ======================================================== claims, Spec

Resolves(i) == requests[i].status = "pending" /\ requests'[i].status = "ok"
Rejects(i) == requests[i].status = "pending" /\ requests'[i].status = "fail"
Succeeded == { i \in 1..Len(requests) : requests[i].status = "ok" }
Failed == { i \in 1..Len(requests) : requests[i].status = "fail" }
Latest(S) == CHOOSE i \in S : \A j \in S : j <= i

\* C1: last-request-wins.  No step applies (setData) the response of a request
\* when a newer request has been issued already, and once no request is
\* pending the dataset held is the response of the most recently issued
\* request that succeeded.
C1_LastRequestWins ==
    [][ /\ \A i \in 1..Len(requests) :
              (Resolves(i) /\ i < Len(requests)) => data' # i
        /\ (Pending' = {} /\ Succeeded' # {}) => data' = Latest(Succeeded') ]_vars

\* C2: a failing request leaves the dataset alone.  The step in which a request
\* fails keeps data as it was, sets the error message, and, when a dataset was
\* held, leaves the dashboard showing it.
C2_FailureKeepsDataset ==
    [][ \A i \in 1..Len(requests) :
            Rejects(i) =>
                /\ data' = data
                /\ error' # NoError
                /\ (data # NoData => View' = "dashboard") ]_vars

\* C2 witness: a request has failed while an earlier request's dataset is held
\* and shown next to the error message.
C2_Witness ==
    \E i \in Failed :
        /\ data # NoData /\ data < i
        /\ error # NoError
        /\ View = "dashboard"

\* C3: at most one upload or filter request is in flight at any time.
C3_AtMostOneInFlight == Cardinality(Pending) <= 1

\* C4: the step in which a request succeeds ends in Ready (the response held,
\* no error message), and the step in which one fails ends in Error.
C4_StateMachine ==
    [][ \A i \in 1..Len(requests) :
            /\ Resolves(i) => (data' = i /\ error' = NoError)
            /\ Rejects(i) => error' # NoError ]_vars

\* C5: an empty year selection is never applied: every call of the filter
\* endpoint carries a non-empty list of years.
C5_EmptyYearsNeverSent == sent # NoCall => Len(sent.years) > 0

\* C11: the dataset held is replaced only as a whole, by the response of a
\* request that resolves, and is never changed in place: every other step (a
\* failed request, a year change in the Top Shareholders selector, any render
\* that computes the ranking) leaves it as it was, and the dataset held is
\* what the response delivered, the order of each year's entries included.
C11_DatasetOnlyReplaced ==
    [][ /\ <<data, dataYears, shareholders>>' # <<data, dataYears, shareholders>> =>
              \E i \in Pending : Resolves(i) /\ data' = i
        /\ data' # NoData => shareholders' = ResponseShareholders(dataYears') ]_vars

\* C11 witness: a dataset is shown, a request has failed, the selector has
\* been moved off the year it starts on, and the ranking computed for the
\* selected year differs from the order of the dataset's entries.
C11_Witness ==
    /\ View = "dashboard"
    /\ Failed # {}
    /\ selectedYear # dataYears[Len(dataYears)]
    /\ indexOf(dataYears, selectedYear) # 0
    /\ sortedShareholders(shareholders[indexOf(dataYears, selectedYear)])
           # shareholders[indexOf(dataYears, selectedYear)]

\* C12: the loading flag is accurate: isLoading is true exactly when at least
\* one upload or filter request is pending.
C12_LoadingIffPending == isLoading <=> (Pending # {})

\* C13: the selection sent to the filter endpoint is the selection the filter
\* controls show.
C13_SentIsShown ==
    sent # NoCall =>
        sent = [years |-> years, industry |-> industry, currency |-> currency]


\* C15: onUpload is only ever called with a list that is not empty and holds
\* PDF files only; a step that puts up the only-PDF message (a rejected
\* selection) leaves the accepted files as they were; and a step that puts up
\* the no-file message (a submit with no accepted file) starts no upload; an
\* upload request is started with the accepted files, which are not empty.
C15_OnlyPdfUploads ==
    [][ /\ uploaded' # NoUpload =>
              /\ Len(uploaded') > 0
              /\ \A k \in 1..Len(uploaded') : uploaded'[k] = PdfType
        /\ message' = OnlyPdfMessage => files' = files
        /\ message' = NoFileMessage =>
              /\ Len(files') = 0
              /\ uploaded' = uploaded
              /\ ~(/\ Len(requests') > Len(requests)
                   /\ requests'[Len(requests')].kind = "upload")
        /\ (Len(requests') > Len(requests)
              /\ requests'[Len(requests')].kind = "upload") =>
              /\ uploaded' = files
              /\ Len(files) > 0 ]_vars

\* C15 witness: files were accepted and uploaded, and a later selection that
\* held a file of another type was rejected, the accepted list still in place.
C15_Witness ==
    /\ uploaded # NoUpload
    /\ message = OnlyPdfMessage
    /\ Len(files) > 0
    /\ \A k \in 1..Len(files) : files[k] = PdfType

\* C14: while the Top Shareholders view is shown, its selected year is one of
\* the years of the dataset displayed, so the year's index is found.
C14_SelectedYearInDataset ==
    View = "dashboard" => indexOf(dataYears, selectedYear) # 0

\* ==================================================== claims, SpecRank

\* Entry j of list l comes before entry i in the ranking: a larger percentage,
\* or the same percentage and an earlier place in the input.
RankedBefore(l, j, i) ==
    \/ l[j].ownership_percentage > l[i].ownership_percentage
    \/ (l[j].ownership_percentage = l[i].ownership_percentage /\ j < i)

\* The place of entry i of l in the ranking, counted from 1.
Place(l, i) == 1 + Cardinality({ j \in 1..Len(l) : RankedBefore(l, j, i) })

C10_RankingIdempotent ==
    rendered => Top10(top10Shareholders) = top10Shareholders

\* C10 witness: a ranked list with equal percentages in it, which differs from
\* its input, has been produced.
C10_Witness ==
    /\ rendered
    /\ top10Shareholders # yearData
    /\ \E i, j \in 1..Len(top10Shareholders) :
           /\ i < j
           /\ top10Shareholders[i].ownership_percentage
                = top10Shareholders[j].ownership_percentage

\* =================================================== claims, SpecChart

HasLine(label) == \E k \in 1..Len(tooltip) : tooltip[k].label = label
LinesOf(label) == SelectSeq(tooltip, LAMBDA l : l.label = label)
OnLine(chart) == hovered.chart = chart /\ hovered.datasetIndex = 0

\* `shown`, a figure printed with one decimal, is (cur - prev) / prev * 100
\* rounded to that decimal; cur and prev are whole numbers, prev is not 0.
IsGrowthOf(shown, cur, prev) ==
    /\ shown.t = "num"
    /\ 2 * Abs(shown.v * prev - (cur - prev) * 1000) <= Abs(prev)

\* The value of the hovered year and of the year before it in a series.
Cur(series) == At(series, hovered.dataIndex).n
Prev(series) == At(series, hovered.dataIndex - 1).n
\* The growth figure the payload carries for the hovered year.
Supplied(growth) == At(growth, hovered.dataIndex - 1)

C8_ZeroDenominatorAbsent ==
    /\ \A k \in 1..Len(tooltip) : tooltip[k].shown.t = "num"
    /\ (OnLine("NetAssetShare") /\ hovered.dataIndex >= 1
            /\ Prev(dataset.net_asset_per_share) = 0)
         => ~HasLine("YoY Growth")

\* C9: a value that is present and 0 is used as 0: a benchmark of 0 is drawn
\* at 0, and a growth, net profit or cost ratio of 0 is shown in its tooltip.
C9_ZeroIsPresent ==
    /\ (benchmarkLine # <<>> /\ dataset.industry_benchmark = Num(0))
         => \A i \in 1..Len(benchmarkLine) : benchmarkLine[i] = Num(0)
    /\ (OnLine("RevenueTrend") /\ hovered.dataIndex >= 1
            /\ Supplied(dataset.revenue_growth) = Num(0))
         => HasLine("YoY Growth")
    /\ (OnLine("EPSTrend") /\ hovered.dataIndex >= 1
            /\ Supplied(dataset.eps_growth) = Num(0))
         => HasLine("YoY Growth")
    /\ (OnLine("EPSTrend") /\ At(dataset.net_profit, hovered.dataIndex) = Num(0))
         => HasLine("Net Profit")
    /\ (OnLine("CostExpenses") /\ At(dataset.cost_ratio, hovered.dataIndex) = Num(0))
         => HasLine("Cost-to-Revenue Ratio")

====
